---- MODULE Spec2Model ----
(***************************************************************************)
(* Shape-level model of im2im/unet/model.py: the layer modules DoubleConv, *)
(* Down, AvgDown, Up, OutConv and the networks UNet and AvgPoolUNet.       *)
(* A tensor is represented by its shape [b, c, h, w]; an operator of the   *)
(* tensor runtime either returns a shape or raises.  The last operator of  *)
(* the network, Tanh, is modelled on one probed element in float32.        *)
(***************************************************************************)
EXTENDS Integers, Sequences, FiniteSets, TLC

\* ---------------------------------------------------------------- bounds
MaxB == 2
MaxCh == 2
MaxH == 32
MaxForwards == 2
MaxK == 2
MaxUp == 4

\* Spatial sizes given to the networks: one below the four-halvings limit,
\* the limit, an odd size at every decoder depth (17, 18 -> 9, 20 -> 5,
\* 24 -> 3) and the sizes whose bottleneck is larger than one pixel.
Sizes == {15, 16, 17, 18, 20, 24} \cup (32..MaxH)
Batches == 1..MaxB
Channels == 1..MaxCh
\* Spatial sizes given to an Up module called on its own.
UpSizes == 1..MaxUp
\* Pre-activations probed at the output: multiples of 5 (exact in float32).
PreActs == {5 * k : k \in (0 - MaxK)..MaxK}

\* ------------------------------------------------------- tensors, results
Shape(b, c, h, w) == [b |-> b, c |-> c, h |-> h, w |-> w]
NoShape == Shape(0, 0, 0, 0)

Ok(s) == [ok |-> TRUE, exc |-> "", shape |-> s]
Raise(e) == [ok |-> FALSE, exc |-> e, shape |-> NoShape]

\* ------------------------------------------------- tensor runtime operators
Conv2dInit(cin, cout, k, pad) == [cin |-> cin, cout |-> cout, k |-> k, pad |-> pad]

\* Mutant of Conv2dOut: the convolution built without padding=1.
Conv2dOutNoPad(n, l) == n - l.k + 1

Conv2dOut(n, l) == n + 2 * l.pad - l.k + 1

\* Mutant of Conv2d: no check of the input's channel count.
Conv2dUnchecked(l, s) == Ok(Shape(s.b, l.cout, Conv2dOut(s.h, l), Conv2dOut(s.w, l)))

Conv2d(l, s) ==
  IF s.c # l.cin THEN Raise("RuntimeError")
  ELSE IF Conv2dOut(s.h, l) < 1 \/ Conv2dOut(s.w, l) < 1 THEN Raise("RuntimeError")
  ELSE Ok(Shape(s.b, l.cout, Conv2dOut(s.h, l), Conv2dOut(s.w, l)))

\* In training mode batch statistics need more than one value per channel.
BatchNorm2d(features, s, training) ==
  IF training /\ s.b * s.h * s.w = 1 THEN Raise("ValueError")
  ELSE IF s.c # features THEN Raise("RuntimeError")
  ELSE Ok(s)

ReLU(s) == s

\* MaxPool2d(k) and AvgPool2d(k) give the same shape: each axis floor-divided.
Pool2d(k, s) ==
  IF s.h \div k < 1 \/ s.w \div k < 1 THEN Raise("RuntimeError")
  ELSE Ok(Shape(s.b, s.c, s.h \div k, s.w \div k))

Upsample(scale, s) == Ok(Shape(s.b, s.c, s.h * scale, s.w * scale))

ConvTranspose2dInit(cin, cout, k, stride) ==
  [cin |-> cin, cout |-> cout, k |-> k, stride |-> stride]

ConvTranspose2d(l, s) ==
  IF s.c # l.cin THEN Raise("RuntimeError")
  ELSE Ok(Shape(s.b, l.cout, (s.h - 1) * l.stride + l.k, (s.w - 1) * l.stride + l.k))

\* F.pad(x, [left, right, top, bottom]): a negative amount crops.
Pad(s, p) ==
  IF s.w + p[1] + p[2] < 0 \/ s.h + p[3] + p[4] < 0 THEN Raise("RuntimeError")
  ELSE Ok(Shape(s.b, s.c, s.h + p[3] + p[4], s.w + p[1] + p[2]))

\* torch.cat([a, b], dim=1): every other axis must agree.
Cat(a, b) ==
  IF a.b # b.b \/ a.h # b.h \/ a.w # b.w THEN Raise("RuntimeError")
  ELSE Ok(Shape(a.b, a.c + b.c, a.h, a.w))

\* float32 tanh of an integer z, in units of 2^-24 (the spacing of float32
\* below 1): tanh saturates to exactly 1.0 from z = 10 on.
TanhTable == <<12777430, 16173699, 16694249, 16765964, 16775693,
               16777010, 16777188, 16777212, 16777215>>

TanhAbs(z) == IF z = 0 THEN 0 ELSE IF z > Len(TanhTable) THEN 16777216 ELSE TanhTable[z]

\* Mutant of Tanh: the projection returned without the nonlinearity.
TanhOmitted(z) == z * 16777216

Tanh(z) == IF z < 0 THEN 0 - TanhAbs(0 - z) ELSE TanhAbs(z)

\* ------------------------------------------------------------- DoubleConv
DoubleConvInit(cin, cout, mid) ==
  LET m == IF mid = 0 THEN cout ELSE mid
  IN [conv1 |-> Conv2dInit(cin, m, 3, 1), bn1 |-> m,
      conv2 |-> Conv2dInit(m, cout, 3, 1), bn2 |-> cout]

\* The result of a module's forward: ok, or the operator that raised (op)
\* and its exception; bns counts the BatchNorm2d layers that were entered.
Res(ok, exc, op, s, bns) == [ok |-> ok, exc |-> exc, op |-> op, shape |-> s, bns |-> bns]

DoubleConvForward(dc, s, training) ==
  LET c1 == Conv2d(dc.conv1, s)
      b1 == BatchNorm2d(dc.bn1, c1.shape, training)
      c2 == Conv2d(dc.conv2, ReLU(b1.shape))
      b2 == BatchNorm2d(dc.bn2, c2.shape, training)
  IN IF ~c1.ok THEN Res(FALSE, c1.exc, "conv1", NoShape, 0)
     ELSE IF ~b1.ok THEN Res(FALSE, b1.exc, "bn1", NoShape, 1)
     ELSE IF ~c2.ok THEN Res(FALSE, c2.exc, "conv2", NoShape, 1)
     ELSE IF ~b2.ok THEN Res(FALSE, b2.exc, "bn2", NoShape, 2)
     ELSE Res(TRUE, "", "", ReLU(b2.shape), 2)

\* ------------------------------------------------------- Down and AvgDown
DownInit(cin, cout) == [pool |-> "max", k |-> 2, conv |-> DoubleConvInit(cin, cout, 0)]

AvgDownInit(cin, cout) == [pool |-> "avg", k |-> 2, conv |-> DoubleConvInit(cin, cout, 0)]

DownForward(d, s, training) ==
  LET p == Pool2d(d.k, s)
  IN IF ~p.ok THEN Res(FALSE, p.exc, "pool", NoShape, 0)
     ELSE DoubleConvForward(d.conv, p.shape, training)

\* --------------------------------------------------------------------- Up
\* Mutant of UpInit: the transposed convolution keeps the channel depth.
UpInitNoHalving(cin, cout, bilinear) ==
  IF bilinear
  THEN [bilinear |-> TRUE, scale |-> 2,
        conv |-> DoubleConvInit(cin, cout, cin \div 2)]
  ELSE [bilinear |-> FALSE, up |-> ConvTranspose2dInit(cin, cin, 2, 2),
        conv |-> DoubleConvInit(cin, cout, 0)]

UpInit(cin, cout, bilinear) ==
  IF bilinear
  THEN [bilinear |-> TRUE, scale |-> 2,
        conv |-> DoubleConvInit(cin, cout, cin \div 2)]
  ELSE [bilinear |-> FALSE, up |-> ConvTranspose2dInit(cin, cin \div 2, 2, 2),
        conv |-> DoubleConvInit(cin, cout, 0)]

UpSample(u, x1) == IF u.bilinear THEN Upsample(u.scale, x1) ELSE ConvTranspose2d(u.up, x1)

\* Mutant of UpPads: the trailing edge gets the floor half too.
UpPadsFloorBoth(diffX, diffY) ==
  <<diffX \div 2, diffX \div 2, diffY \div 2, diffY \div 2>>

\* [left, right, top, bottom] as Up.forward hands them to F.pad.
UpPads(diffX, diffY) ==
  <<diffX \div 2, diffX - diffX \div 2, diffY \div 2, diffY - diffY \div 2>>

\* What Up.forward adds to a module result: the pad amounts, the upsampled
\* and the padded x1, the concatenation and the order of its operands.
UpRes(r, pads, up, padded, cat) ==
  [ok |-> r.ok, exc |-> r.exc, op |-> r.op, shape |-> r.shape, bns |-> r.bns,
   pads |-> pads, up |-> up, padded |-> padded, cat |-> cat,
   catorder |-> IF cat = NoShape THEN <<>> ELSE <<"x2", "x1">>]

UpForward(u, x1, x2, training) ==
  LET up    == UpSample(u, x1)
      diffY == x2.h - up.shape.h
      diffX == x2.w - up.shape.w
      pads  == UpPads(diffX, diffY)
      pd    == Pad(up.shape, pads)
      ct    == Cat(x2, pd.shape)
      dc    == DoubleConvForward(u.conv, ct.shape, training)
      none  == <<0, 0, 0, 0>>
  IN IF ~up.ok THEN UpRes(Res(FALSE, up.exc, "up", NoShape, 0), none, NoShape, NoShape, NoShape)
     ELSE IF ~pd.ok THEN UpRes(Res(FALSE, pd.exc, "pad", NoShape, 0), pads, up.shape, NoShape, NoShape)
     ELSE IF ~ct.ok THEN UpRes(Res(FALSE, ct.exc, "cat", NoShape, 0), pads, up.shape, pd.shape, NoShape)
     ELSE UpRes(dc, pads, up.shape, pd.shape, ct.shape)

\* ---------------------------------------------------------------- OutConv
OutConvInit(cin, cout) == [conv |-> Conv2dInit(cin, cout, 1, 0)]

\* Tanh keeps the shape of the 1x1 projection.
OutConvForward(o, s) ==
  LET c == Conv2d(o.conv, s)
  IN IF ~c.ok THEN Res(FALSE, c.exc, "conv", NoShape, 0)
     ELSE Res(TRUE, "", "", c.shape, 0)

\* ------------------------------------------------------ UNet, AvgPoolUNet
\* Method resolution order of the two network classes (both derive nn.Module).
Mro(cls) ==
  IF cls = "UNet" THEN {"UNet", "Module", "object"}
  ELSE IF cls = "AvgPoolUNet" THEN {"AvgPoolUNet", "Module", "object"}
  ELSE {cls, "object"}

\* super(type, self): self must be an instance of type, else TypeError.
SuperOk(type, selfcls) == type \in Mro(selfcls)

NoNet == [cls |-> "none"]

Built(net) == [ok |-> TRUE, exc |-> "", net |-> net]
CtorRaise(e) == [ok |-> FALSE, exc |-> e, net |-> NoNet]

\* Mutant of Factor: the bottleneck halved whatever the upsampling policy.
FactorAlways(bilinear) == 2

Factor(bilinear) == IF bilinear THEN 2 ELSE 1

UNetInit(n_channels, n_classes, bilinear) ==
  IF ~SuperOk("UNet", "UNet") THEN CtorRaise("TypeError")
  ELSE Built(
    [cls |-> "UNet", n_channels |-> n_channels, n_classes |-> n_classes,
     bilinear |-> bilinear,
     inc |-> DoubleConvInit(n_channels, 64, 0),
     down |-> <<DownInit(64, 128), DownInit(128, 256), DownInit(256, 512),
                DownInit(512, 1024 \div Factor(bilinear))>>,
     up |-> <<UpInit(1024, 512 \div Factor(bilinear), bilinear),
              UpInit(512, 256 \div Factor(bilinear), bilinear),
              UpInit(256, 128 \div Factor(bilinear), bilinear),
              UpInit(128, 64, bilinear)>>,
     outc |-> OutConvInit(64, n_classes)])

AvgPoolUNetInit(n_channels, n_classes, bilinear) ==
  IF ~SuperOk("UNet", "AvgPoolUNet") THEN CtorRaise("TypeError")
  ELSE Built(
    [cls |-> "AvgPoolUNet", n_channels |-> n_channels, n_classes |-> n_classes,
     bilinear |-> bilinear,
     inc |-> DoubleConvInit(n_channels, 64, 0),
     down |-> <<AvgDownInit(64, 128), AvgDownInit(128, 256), AvgDownInit(256, 512),
                AvgDownInit(512, 1024 \div Factor(bilinear))>>,
     up |-> <<UpInit(1024, 512 \div Factor(bilinear), bilinear),
              UpInit(512, 256 \div Factor(bilinear), bilinear),
              UpInit(256, 128 \div Factor(bilinear), bilinear),
              UpInit(128, 64, bilinear)>>,
     outc |-> OutConvInit(64, n_classes)])

New(cls, n_channels, n_classes, bilinear) ==
  IF cls = "UNet" THEN UNetInit(n_channels, n_classes, bilinear)
  ELSE AvgPoolUNetInit(n_channels, n_classes, bilinear)

\* ----------------------------------------------------- the forward pass
DownName == <<"down1", "down2", "down3", "down4">>
UpName == <<"up1", "up2", "up3", "up4">>
XName == <<"x1", "x2", "x3", "x4", "x5">>
UOut == <<"u1", "u2", "u3", "u4">>
FmNames == {"x1", "x2", "x3", "x4", "x5", "u1", "u2", "u3", "u4", "logits"}
BNStages == {"inc", "down1", "down2", "down3", "down4", "up1", "up2", "up3", "up4"}

NoErr == [stage |-> "", op |-> "", exc |-> ""]
NoUp == [pads |-> <<0, 0, 0, 0>>, up |-> NoShape, padded |-> NoShape, cat |-> NoShape]

\* The frame of one call of forward: the stage to run next, the feature maps
\* bound so far (x1..x5, the four values of x after up1..up4, logits), the
\* stages called with the tensors each read, and the exception if one was
\* raised.  mode is the network's training flag during the call.
NewFrame(training) ==
  [next |-> "inc",
   mode |-> training,
   fm |-> [n \in FmNames |-> NoShape],
   ups |-> [i \in 1..4 |-> NoUp],
   bns |-> [s \in BNStages |-> 0],
   log |-> <<>>,
   err |-> NoErr]

Event(stage, reads, cat, out) == [stage |-> stage, reads |-> reads, cat |-> cat, out |-> out]

\* A stage returned r: bind its output and go on, or leave with its exception.
Bind(f, ev, r, nxt) ==
  [f EXCEPT !.log = Append(@, ev),
            !.fm[ev.out] = IF r.ok THEN r.shape ELSE @,
            !.next = IF r.ok THEN nxt ELSE "error",
            !.err = IF r.ok THEN @ ELSE [stage |-> ev.stage, op |-> r.op, exc |-> r.exc]]

IncStage(net, f, x) ==
  IF f.next # "inc" THEN f
  ELSE LET r == DoubleConvForward(net.inc, x, f.mode)
       IN [Bind(f, Event("inc", <<"x">>, <<>>, "x1"), r, "down1")
             EXCEPT !.bns["inc"] = r.bns]

DownStage(net, f, i) ==
  IF f.next # DownName[i] THEN f
  ELSE LET r == DownForward(net.down[i], f.fm[XName[i]], f.mode)
       IN [Bind(f, Event(DownName[i], <<XName[i]>>, <<>>, XName[i + 1]), r,
                IF i < 4 THEN DownName[i + 1] ELSE "up1")
             EXCEPT !.bns[DownName[i]] = r.bns]

\* up_i(x, skip): x is x5 for up1 and the previous stage's output after it.
UpArg(i) == IF i = 1 THEN "x5" ELSE UOut[i - 1]
\* Mutant of UpSkip: the decoder takes the skip connections in encoder order.
UpSkipEncoderOrder(i) == XName[i]

UpSkip(i) == XName[5 - i]

UpStage(net, f, i) ==
  IF f.next # UpName[i] THEN f
  ELSE LET r == UpForward(net.up[i], f.fm[UpArg(i)], f.fm[UpSkip(i)], f.mode)
           cat == [k \in 1..Len(r.catorder) |->
                     IF r.catorder[k] = "x2" THEN UpSkip(i) ELSE UpArg(i)]
       IN [Bind(f, Event(UpName[i], <<UpArg(i), UpSkip(i)>>, cat, UOut[i]), r,
                IF i < 4 THEN UpName[i + 1] ELSE "outc")
             EXCEPT !.bns[UpName[i]] = r.bns,
                    !.ups[i] = [pads |-> r.pads, up |-> r.up,
                                padded |-> r.padded, cat |-> r.cat]]

OutcStage(net, f) ==
  IF f.next # "outc" THEN f
  ELSE LET r == OutConvForward(net.outc, f.fm["u4"])
       IN Bind(f, Event("outc", <<"u4">>, <<>>, "logits"), r, "done")

Encoder(net, training, x) ==
  DownStage(net, DownStage(net, DownStage(net, DownStage(net,
    IncStage(net, NewFrame(training), x), 1), 2), 3), 4)

\* forward(x) run to its return or to its first exception.
Forward(net, training, x) ==
  OutcStage(net, UpStage(net, UpStage(net, UpStage(net, UpStage(net,
    Encoder(net, training, x), 1), 2), 3), 4))

\* ---------------------------------------------------------- program state
VARIABLES
  pc,        \* "start", "ready", "running", "done", "error", "ctor_error", "up_done"
  caller,    \* "main" (the module's self-test), "user" (code importing the module)
  cfg,       \* the class and the constructor arguments of the network asked for
  net,       \* the constructed network, NoNet before and when __init__ raised
  training,  \* nn.Module.training of the network
  nbt,       \* num_batches_tracked of every BatchNorm2d layer
  x,         \* the shape of the tensor handed to forward
  frame,     \* the running (or last) call of forward
  probe,     \* pre-activation z and output y = tanh(z) of one output element
  raised,    \* the exception that reached the caller, "" if none
  forwards,  \* calls of forward so far
  upcall     \* an Up module called on its own: its arguments and result

vars == <<pc, caller, cfg, net, training, nbt, x, frame, probe, raised, forwards, upcall>>

BNLayers == BNStages \X {1, 2}
NoCfg == [cls |-> "none", n_channels |-> 0, n_classes |-> 0, bilinear |-> FALSE]
NoProbe == [set |-> FALSE, z |-> 0, y |-> 0]
NoUpCall == [called |-> FALSE]

Init ==
  /\ pc = "start"
  /\ caller = "none"
  /\ cfg = NoCfg
  /\ net = NoNet
  /\ training = TRUE
  /\ nbt = [l \in BNLayers |-> 0]
  /\ x = NoShape
  /\ frame = NewFrame(TRUE)
  /\ probe = NoProbe
  /\ raised = ""
  /\ forwards = 0
  /\ upcall = NoUpCall

\* net = Cls(n_channels, n_classes, bilinear); nn.Module.__init__ sets
\* training to True.  An exception of __init__ reaches the caller.
ConstructAs(who, cls, n_channels, n_classes, bilinear) ==
  LET r == New(cls, n_channels, n_classes, bilinear)
  IN /\ pc = "start"
     /\ caller' = who
     /\ cfg' = [cls |-> cls, n_channels |-> n_channels, n_classes |-> n_classes,
                bilinear |-> bilinear]
     /\ net' = r.net
     /\ raised' = r.exc
     /\ pc' = IF r.ok THEN "ready" ELSE "ctor_error"
     /\ UNCHANGED <<training, nbt, x, frame, probe, forwards, upcall>>

Construct ==
  \E cls \in {"UNet", "AvgPoolUNet"}, n_channels \in Channels, n_classes \in Channels,
     bilinear \in BOOLEAN :
    ConstructAs("user", cls, n_channels, n_classes, bilinear)

\* if __name__ == '__main__': net = AvgPoolUNet(n_channels=1, n_classes=1, bilinear=False)
Main == ConstructAs("main", "AvgPoolUNet", 1, 1, FALSE)

\* net.train(mode) / net.eval() between calls of forward.
SetTraining ==
  /\ pc \in {"ready", "done", "error"}
  /\ caller = "user"
  /\ \E mode \in BOOLEAN : training' = mode
  /\ UNCHANGED <<pc, caller, cfg, net, nbt, x, frame, probe, raised, forwards, upcall>>

\* The tensors forward is called with: the self-test's torch.rand((1, 1, 100, 100)),
\* any shape of the bounds for a user, and the same tensor again on a later call.
Inputs ==
  IF caller = "main" THEN {Shape(1, 1, 100, 100)}
  ELSE IF forwards > 0 THEN {x}
  ELSE {Shape(b, c, h, w) : b \in Batches, c \in Channels, h \in Sizes, w \in Sizes}

BeginForward ==
  /\ pc \in {"ready", "done", "error"}
  /\ forwards < MaxForwards
  /\ \E xin \in Inputs : x' = xin
  /\ frame' = NewFrame(training)
  /\ probe' = NoProbe
  /\ raised' = ""
  /\ forwards' = forwards + 1
  /\ pc' = "running"
  /\ UNCHANGED <<caller, cfg, net, training, nbt, upcall>>

\* Mutant of Track: the statistics are updated in eval mode too.
TrackAlways(n, stage, bns, tr) ==
  [n EXCEPT ![<<stage, 1>>] = @ + (IF bns >= 1 THEN 1 ELSE 0),
            ![<<stage, 2>>] = @ + (IF bns >= 2 THEN 1 ELSE 0)]

\* A BatchNorm2d layer in training mode counts the batch as it is entered,
\* before its statistics are computed; in eval mode it updates nothing.
Track(n, stage, bns, tr) ==
  IF tr
  THEN [n EXCEPT ![<<stage, 1>>] = @ + (IF bns >= 1 THEN 1 ELSE 0),
                 ![<<stage, 2>>] = @ + (IF bns >= 2 THEN 1 ELSE 0)]
  ELSE n

\* One stage of forward ran and left the frame f2.
Ran(stage, f2) ==
  /\ frame' = f2
  /\ nbt' = IF stage \in BNStages THEN Track(nbt, stage, f2.bns[stage], f2.mode) ELSE nbt
  /\ raised' = f2.err.exc
  /\ pc' = IF f2.next = "error" THEN "error" ELSE IF f2.next = "done" THEN "done" ELSE "running"
  /\ UNCHANGED <<caller, cfg, net, training, x, forwards, upcall>>

StepInc ==
  /\ pc = "running"
  /\ frame.next = "inc"
  /\ Ran("inc", IncStage(net, frame, x))
  /\ UNCHANGED probe

StepDown ==
  \E i \in 1..4 :
    /\ pc = "running"
    /\ frame.next = DownName[i]
    /\ Ran(DownName[i], DownStage(net, frame, i))
    /\ UNCHANGED probe

StepUp ==
  \E i \in 1..4 :
    /\ pc = "running"
    /\ frame.next = UpName[i]
    /\ Ran(UpName[i], UpStage(net, frame, i))
    /\ UNCHANGED probe

\* logits = self.outc(x): the 1x1 projection gives some pre-activation z at
\* the probed element (the parameters are not modelled), Tanh maps it to y.
StepOutc ==
  /\ pc = "running"
  /\ frame.next = "outc"
  /\ Ran("outc", OutcStage(net, frame))
  /\ \E z \in PreActs :
       probe' = IF frame'.next = "done" THEN [set |-> TRUE, z |-> z, y |-> Tanh(z)]
                ELSE NoProbe

\* An Up module built and called on its own, with tensors of any small size.
CallUp ==
  /\ pc = "start"
  /\ \E c \in Channels, bilinear \in BOOLEAN, b \in Batches, k \in 1..2, c2 \in Channels,
        h1 \in UpSizes, w1 \in UpSizes, h2 \in UpSizes, w2 \in UpSizes :
       LET u == UpInit(2 * c, c, bilinear)
           x1 == Shape(b, k * c, h1, w1)
           x2 == Shape(b, c2, h2, w2)
           r == UpForward(u, x1, x2, TRUE)
       IN /\ caller' = "user"
          /\ upcall' = [called |-> TRUE, up |-> u, x1 |-> x1, x2 |-> x2, res |-> r]
          /\ raised' = r.exc
          /\ pc' = "up_done"
          /\ UNCHANGED <<cfg, net, training, nbt, x, frame, probe, forwards>>

Next ==
  \/ Construct
  \/ Main
  \/ SetTraining
  \/ BeginForward
  \/ StepInc
  \/ StepDown
  \/ StepUp
  \/ StepOutc
  \/ CallUp

Spec == Init /\ [][Next]_vars

\* ================================================================ claims
Returned == pc \in {"done", "error"}
Fm(n) == frame.fm[n]
One == 16777216

\* The network built like the current one with the other upsampling policy.
AltNet == New("UNet", cfg.n_channels, cfg.n_classes, ~cfg.bilinear).net

\* forward's result for a well-formed input of at least 16 x 16.
WellFormed == Returned /\ cfg.cls = "UNet" /\ x.c = cfg.n_channels /\ x.h >= 16 /\ x.w >= 16
\* Values per channel at the bottleneck x5.
BottleneckValues == x.b * (x.h \div 16) * (x.w \div 16)

\* C1 as stated: for every configuration and every input (B, n_channels, H, W)
\* with H, W >= 16, UNet.forward completes without error and returns a tensor
\* of shape (B, n_classes, H, W).
C1_Original ==
  WellFormed => /\ pc = "done"
                /\ Fm("logits") = Shape(x.b, cfg.n_classes, x.h, x.w)

\* C1 amended: the same, provided the network is in eval mode or the
\* bottleneck holds more than one value per channel; in training mode with a
\* single value per channel, down4's first BatchNorm2d raises ValueError.
C1_ForwardShape ==
  /\ (WellFormed /\ (~frame.mode \/ BottleneckValues > 1))
        => /\ pc = "done"
           /\ raised = ""
           /\ Fm("logits") = Shape(x.b, cfg.n_classes, x.h, x.w)
  /\ (WellFormed /\ frame.mode /\ BottleneckValues = 1)
        => /\ pc = "error"
           /\ raised = "ValueError"
           /\ frame.err = [stage |-> "down4", op |-> "bn1", exc |-> "ValueError"]

C1_Witness ==
  /\ pc = "done" /\ frame.mode /\ x.b = 1 /\ x.h = 32 /\ x.w = 17
  /\ cfg.n_classes # cfg.n_channels
  /\ Fm("logits") = Shape(1, cfg.n_classes, 32, 17)

\* C2 as stated: the self-test constructs AvgPoolUNet(1, 1, False) without an
\* exception and its forward pass on (1, 1, 100, 100) returns (1, 1, 100, 100).
C2_SelfTest ==
  caller = "main" => /\ pc # "ctor_error"
                     /\ raised = ""
                     /\ (pc = "done" => Fm("logits") = Shape(1, 1, 100, 100))

\* C3 as stated: AvgPoolUNet built with the construction parameters of a UNet
\* and given the same input yields the same shape for every feature map.
C3_SameShapes ==
  (Returned /\ cfg.cls = "UNet")
    => LET a == AvgPoolUNetInit(cfg.n_channels, cfg.n_classes, cfg.bilinear)
       IN /\ a.ok
          /\ Forward(a.net, frame.mode, x).fm = frame.fm

\* The split Up.forward makes of a size difference d: leading floor(d/2),
\* trailing d - floor(d/2), stated without the code's own expression.
FloorCeilSplit(lead, trail, d) == lead + trail = d /\ lead <= trail /\ trail <= lead + 1

PadsSplit(p, up, x2) ==
  /\ FloorCeilSplit(p[1], p[2], x2.w - up.w)
  /\ FloorCeilSplit(p[3], p[4], x2.h - up.h)

SameHW(a, b) == a.h = b.h /\ a.w = b.w

\* C4: for any sizes of x1 and x2 Up.forward pads the upsampled x1 by
\* floor(diff/2) before and diff - floor(diff/2) after on each axis, so the
\* padded x1 and the Up output have x2's height and width; in UNet.forward
\* every decoder stage outputs its skip connection's size and the final
\* output has the input's size.
C4_UpPadding ==
  /\ (upcall.called /\ upcall.res.up # NoShape)
        => /\ PadsSplit(upcall.res.pads, upcall.res.up, upcall.x2)
           /\ upcall.res.padded # NoShape
           /\ SameHW(upcall.res.padded, upcall.x2)
           /\ (upcall.res.ok => SameHW(upcall.res.shape, upcall.x2))
  /\ \A i \in 1..4 :
        /\ frame.ups[i].up # NoShape
              => /\ PadsSplit(frame.ups[i].pads, frame.ups[i].up, Fm(UpSkip(i)))
                 /\ SameHW(frame.ups[i].padded, Fm(UpSkip(i)))
        /\ Fm(UOut[i]) # NoShape => SameHW(Fm(UOut[i]), Fm(UpSkip(i)))
  /\ pc = "done" => SameHW(Fm("logits"), x)

C4_Witness ==
  /\ pc = "done" /\ x.h = 17 /\ x.w = 20
  /\ frame.ups[4].pads = <<0, 0, 0, 1>>
  /\ frame.ups[2].pads = <<0, 1, 0, 0>>
  /\ Fm("logits").h = 17 /\ Fm("logits").w = 20

\* C5 as stated: between bilinear=true and bilinear=false only the upsampling
\* mechanism and the channel width of x5 differ; every other feature map has
\* the same channel width.
C5_Original ==
  pc = "done"
    => LET alt == Forward(AltNet, frame.mode, x)
       IN /\ alt.next = "done"
          /\ \A n \in FmNames \ {"x5"} : alt.fm[n].c = Fm(n).c

\* C5 amended: the two settings differ in the upsampling mechanism and in the
\* channel width of x5 and of the outputs of up1, up2 and up3 (each halved
\* under bilinear); x1..x4, the output of up4 and the logits have the same
\* channel width, every feature map the same batch and spatial size, and the
\* pass ends the same way.
C5_Bilinear ==
  Returned
    => LET alt == Forward(AltNet, frame.mode, x)
           bil == IF cfg.bilinear THEN frame ELSE alt
           tra == IF cfg.bilinear THEN alt ELSE frame
       IN /\ alt.next = frame.next
          /\ alt.err = frame.err
          /\ \A n \in FmNames :
                /\ alt.fm[n].b = Fm(n).b
                /\ SameHW(alt.fm[n], Fm(n))
          /\ \A n \in {"x1", "x2", "x3", "x4", "u4", "logits"} : alt.fm[n].c = Fm(n).c
          /\ \A n \in {"x5", "u1", "u2", "u3"} : 2 * bil.fm[n].c = tra.fm[n].c
          /\ \A i \in 1..4 : /\ net.up[i].bilinear = cfg.bilinear
                             /\ AltNet.up[i].bilinear = ~cfg.bilinear

C5_Witness ==
  /\ pc = "done" /\ cfg.bilinear
  /\ Fm("x5").c = 512 /\ Fm("u1").c = 256 /\ Fm("u3").c = 64 /\ Fm("u4").c = 64

\* C6 as stated: a forward pass changes no layer parameter state, the
\* normalization statistics included.
C6_Original == [][nbt' = nbt]_vars

\* C6 amended: in eval mode a forward pass changes no normalization statistic;
\* in training mode (the mode after construction) every BatchNorm2d layer the
\* pass enters counts one more batch, the layers of later stages and the
\* statistics outside a pass staying as they are.
C6_Statistics ==
  [][/\ (pc # "running" \/ ~frame.mode) => nbt' = nbt
     /\ (pc = "running" /\ frame.mode)
           => \A l \in BNLayers :
                 nbt'[l] = nbt[l] + (IF l[1] = frame.next /\ l[2] <= frame'.bns[l[1]]
                                     THEN 1 ELSE 0)
     /\ (pc = "running" /\ frame.mode /\ frame.next \in BNStages /\ pc' # "error")
           => /\ nbt'[<<frame.next, 1>>] = nbt[<<frame.next, 1>>] + 1
              /\ nbt'[<<frame.next, 2>>] = nbt[<<frame.next, 2>>] + 1]_vars

\* Two passes on the same input, one in training and one in eval mode: only
\* the training pass was counted.
C6_Witness ==
  /\ pc = "done" /\ forwards = 2 /\ ~frame.mode
  /\ \A l \in BNLayers : nbt[l] = 1

\* C7: forward on an input whose channel count differs from n_channels fails
\* at the stem DoubleConv's first convolution, before any other stage is
\* evaluated, and the exception reaches the caller.
C7_ChannelMismatch ==
  (pc \in {"running", "done", "error"} /\ x.c # cfg.n_channels /\ frame.next # "inc")
    => /\ pc = "error"
       /\ frame.next = "error"
       /\ frame.err = [stage |-> "inc", op |-> "conv1", exc |-> "RuntimeError"]
       /\ raised = "RuntimeError"
       /\ Len(frame.log) = 1
       /\ frame.log[1].stage = "inc"
       /\ \A n \in FmNames : Fm(n) = NoShape
       /\ \A st \in BNStages : frame.bns[st] = 0

C7_Witness ==
  /\ pc = "error" /\ x.c = 2 /\ cfg.n_channels = 1
  /\ frame.err.stage = "inc" /\ raised = "RuntimeError"

\* C8 as stated: every element of the returned tensor lies strictly inside
\* the open interval (-1, 1).
C8_Original == probe.set => (0 - One < probe.y /\ probe.y < One)

\* C8 amended: every element computed from a finite pre-activation lies in
\* the closed interval [-1, 1]; float32 tanh returns exactly 1.0 or -1.0 once
\* the pre-activation's magnitude reaches 10, and lies strictly inside below.
C8_TanhRange ==
  probe.set => /\ 0 - One <= probe.y /\ probe.y <= One
               /\ (probe.z < 10 /\ probe.z > 0 - 10) => (0 - One < probe.y /\ probe.y < One)
               /\ probe.z >= 10 => probe.y = One
               /\ probe.z <= 0 - 10 => probe.y = 0 - One

C8_Witness == pc = "done" /\ probe.set /\ probe.z = 10 /\ probe.y = One

\* C9: the encoder produces 64, 128, 256, 512 channels for x1..x4 and 1024
\* (512 when bilinear) for x5, and at each Up stage the channels of the
\* concatenation (skip plus upsampled tensor) equal the in_channels its
\* DoubleConv was built with: no stage after the stem gets a tensor whose
\* channel count it was not configured for.
C9_Channels ==
  /\ \A k \in 1..4 : Fm(XName[k]) # NoShape => Fm(XName[k]).c = <<64, 128, 256, 512>>[k]
  /\ Fm("x5") # NoShape => Fm("x5").c = (IF cfg.bilinear THEN 512 ELSE 1024)
  /\ \A i \in 1..4 :
        frame.ups[i].cat # NoShape
          => /\ frame.ups[i].cat.c = Fm(UpSkip(i)).c + frame.ups[i].padded.c
             /\ frame.ups[i].cat.c = net.up[i].conv.conv1.cin
             /\ frame.ups[i].cat.c = <<1024, 512, 256, 128>>[i]
  /\ frame.err.exc = "RuntimeError"
        => \/ frame.err.op = "pool"
           \/ frame.err.stage = "inc" /\ x.c # cfg.n_channels
  /\ pc = "done" => Fm("u4").c = 64

C9_Witness ==
  /\ pc = "done" /\ cfg.bilinear
  /\ frame.ups[1].cat.c = 1024 /\ frame.ups[1].padded.c = 512
  /\ frame.ups[4].cat.c = 128

\* The stages of a forward pass in order, with the tensors each reads and the
\* order of the operands of its concatenation.
StageOrder ==
  <<[stage |-> "inc",   reads |-> <<"x">>,        cat |-> <<>>,             out |-> "x1"],
    [stage |-> "down1", reads |-> <<"x1">>,       cat |-> <<>>,             out |-> "x2"],
    [stage |-> "down2", reads |-> <<"x2">>,       cat |-> <<>>,             out |-> "x3"],
    [stage |-> "down3", reads |-> <<"x3">>,       cat |-> <<>>,             out |-> "x4"],
    [stage |-> "down4", reads |-> <<"x4">>,       cat |-> <<>>,             out |-> "x5"],
    [stage |-> "up1",   reads |-> <<"x5", "x4">>, cat |-> <<"x4", "x5">>,   out |-> "u1"],
    [stage |-> "up2",   reads |-> <<"u1", "x3">>, cat |-> <<"x3", "u1">>,   out |-> "u2"],
    [stage |-> "up3",   reads |-> <<"u2", "x2">>, cat |-> <<"x2", "u2">>,   out |-> "u3"],
    [stage |-> "up4",   reads |-> <<"u3", "x1">>, cat |-> <<"x1", "u3">>,   out |-> "u4"],
    [stage |-> "outc",  reads |-> <<"u4">>,       cat |-> <<>>,             out |-> "logits"]>>

\* C10: x1..x5 are produced in order before any decoder stage runs; up1..up4
\* then run in order on x4, x3, x2, x1 (up1 also on x5, each later stage on
\* the previous output); each skip connection is read by the one Up stage of
\* its depth, comes first in the concatenation and is not read afterwards;
\* OutConv runs last.
C10_Order ==
  /\ Len(frame.log) <= Len(StageOrder)
  /\ \A k \in 1..Len(frame.log) :
        /\ frame.log[k].stage = StageOrder[k].stage
        /\ frame.log[k].reads = StageOrder[k].reads
        /\ frame.log[k].out = StageOrder[k].out
        /\ frame.log[k].cat \in {<<>>, StageOrder[k].cat}
        /\ Fm(StageOrder[k].out) # NoShape => frame.log[k].cat = StageOrder[k].cat
        \* every tensor a stage reads was produced by an earlier stage
        /\ \A j \in 1..Len(frame.log[k].reads) :
              frame.log[k].reads[j] # "x" => Fm(frame.log[k].reads[j]) # NoShape
  /\ pc = "done" => Len(frame.log) = Len(StageOrder)
  /\ \A n \in FmNames : Fm(n) # NoShape => \E k \in 1..Len(frame.log) : frame.log[k].out = n

C10_Witness ==
  /\ pc = "done" /\ Len(frame.log) = 10
  /\ frame.log[6].cat = <<"x4", "x5">> /\ frame.log[9].reads = <<"u3", "x1">>

====
